---- MODULE Spec2Model ----
(***************************************************************************)
(* Model of objectdb: the entity model and ForeignKey of                   *)
(* src/objectdb/database.py and the MongoDB backend of                     *)
(* src/objectdb/backends/mongodb.py, together with the document-collection *)
(* semantics (update_one/find_one/delete_one/find) the backend calls.      *)
(***************************************************************************)
EXTENDS Integers, FiniteSets, Sequences, TLC

\* ---------------------------------------------------------------- bounds
NumIds == 2        \* distinct ObjectIds callers use
NumVals == 2       \* distinct strings used as field values
MaxDocs == 2       \* cap on the number of documents held by the database

\* ---------------------------------------------------------------- values
\* Python values are tagged so that an ObjectId, a str and an int never
\* compare equal (ObjectId.__eq__ is False for a non-ObjectId).
Str(n) == [tag |-> "str", v |-> n]
Oid(n) == [tag |-> "oid", v |-> n]
IntV(n) == [tag |-> "int", v |-> n]
None == [tag |-> "none", v |-> 0]

\* str(ObjectId): the 24 character hex string.  Hex strings are the strings
\* numbered above HexBase; the field-value strings are numbered below it.
HexBase == 100
ObjectIdStr(oid) == Str(HexBase + oid.v)
\* ObjectId.is_valid(v): an ObjectId, or a str that is a 24 character hex string
ObjectIdIsValid(v) == \/ v.tag = "oid"
                      \/ v.tag = "str" /\ v.v > HexBase

ObjectIds == {Oid(n) : n \in 1..NumIds}
StrVals == {Str(n) : n \in 1..NumVals}
HexStrs == {ObjectIdStr(o) : o \in ObjectIds}
\* a value that is not a str: assigned to a str field it makes the item invalid
BadVal == IntV(1)

\* ---------------------------------------------------------------- entity model
\* The DatabaseItem subclasses the tests declare: User(name, email) and
\* Customer(name, city).  Each inherits `identifier`, alias `_id`.
ClassNames == {"User", "Customer"}
DataFields(cls) == IF cls = "User" THEN {"name", "email"} ELSE {"name", "city"}
FieldNames(cls) == {"identifier"} \cup DataFields(cls)
Alias(name) == IF name = "identifier" THEN "_id" ELSE name

\* mutant: a torn write, of an existing document only `name` is set
Merge_Torn(d, s) ==
    [k \in (DOMAIN d) \cup (DOMAIN s) |->
       IF k \in DOMAIN s /\ (k \notin DOMAIN d \/ k = "name") THEN s[k] ELSE d[k]]

\* mutant: keys the document already has keep their old value
Merge_KeepOld(d, s) == [k \in (DOMAIN d) \cup (DOMAIN s) |-> IF k \in DOMAIN d THEN d[k] ELSE s[k]]

\* the document d with the keys of s set to the values of s (`$set`)
Merge(d, s) == [k \in (DOMAIN d) \cup (DOMAIN s) |-> IF k \in DOMAIN s THEN s[k] ELSE d[k]]

\* mutant: validate makes a new ObjectId instead of converting v
PyObjectIdValidate_New(v) ==
    IF v.tag = "oid" THEN [ok |-> TRUE, val |-> Oid(0)]
    ELSE IF ~ObjectIdIsValid(v) THEN [ok |-> FALSE, val |-> None]
    ELSE [ok |-> TRUE, val |-> Oid(0)]

\* PyObjectId.validate
PyObjectIdValidate(v) ==
    IF v.tag = "oid" THEN [ok |-> TRUE, val |-> v]
    ELSE IF ~ObjectIdIsValid(v) THEN [ok |-> FALSE, val |-> None]
    ELSE [ok |-> TRUE, val |-> Oid(v.v - HexBase)]

\* the identifier a default_factory call yields: an ObjectId no caller holds
FreshOid == Oid(0)

\* mutant: the declared types of the data fields are not checked
ModelValidate_NoFieldCheck(cls, data) ==
    LET rawid == IF "_id" \in DOMAIN data THEN data["_id"]
                 ELSE IF "identifier" \in DOMAIN data THEN data["identifier"]
                 ELSE FreshOid
        idv == PyObjectIdValidate(rawid)
        fieldsOk == \A k \in DataFields(cls) : k \in DOMAIN data
    IN IF idv.ok /\ fieldsOk
       THEN [ok |-> TRUE,
             item |-> [cls |-> cls,
                       f |-> [k \in FieldNames(cls) |->
                                IF k = "identifier" THEN idv.val ELSE data[k]]]]
       ELSE [ok |-> FALSE, item |-> [cls |-> cls, f |-> data]]

\* mutant: the identifier is read by field name only (no alias `_id`)
ModelValidate_ByNameOnly(cls, data) ==
    LET rawid == IF "identifier" \in DOMAIN data THEN data["identifier"] ELSE FreshOid
        idv == PyObjectIdValidate(rawid)
        fieldsOk == \A k \in DataFields(cls) : k \in DOMAIN data /\ data[k].tag = "str"
    IN IF idv.ok /\ fieldsOk
       THEN [ok |-> TRUE,
             item |-> [cls |-> cls,
                       f |-> [k \in FieldNames(cls) |->
                                IF k = "identifier" THEN idv.val ELSE data[k]]]]
       ELSE [ok |-> FALSE, item |-> [cls |-> cls, f |-> data]]

\* cls.model_validate(data): data is a dict keyed by alias (`_id`) or, with
\* populate_by_name, by field name; every declared str field must be present
\* and a str; keys that are not fields are ignored; a missing identifier is
\* filled by the default factory.
ModelValidate(cls, data) ==
    LET rawid == IF "_id" \in DOMAIN data THEN data["_id"]
                 ELSE IF "identifier" \in DOMAIN data THEN data["identifier"]
                 ELSE FreshOid
        idv == PyObjectIdValidate(rawid)
        fieldsOk == \A k \in DataFields(cls) : k \in DOMAIN data /\ data[k].tag = "str"
    IN IF idv.ok /\ fieldsOk
       THEN [ok |-> TRUE,
             item |-> [cls |-> cls,
                       f |-> [k \in FieldNames(cls) |->
                                IF k = "identifier" THEN idv.val ELSE data[k]]]]
       ELSE [ok |-> FALSE, item |-> [cls |-> cls, f |-> data]]

\* item.model_dump(by_alias=True, exclude=...): `exclude` names fields by their
\* field name; the remaining fields are keyed by alias.
ModelDump(item, exclude) ==
    LET kept == (DOMAIN item.f) \ exclude
    IN [a \in {Alias(k) : k \in kept} |->
          item.f[CHOOSE k \in kept : Alias(k) = a]]

\* The items callers hold.  A User takes every combination of field values,
\* a Customer only the first string; either may carry a value that is not a
\* str in a data field (fields are assignable without validation).
ItemVals(cls) == IF cls = "User" THEN StrVals \cup {BadVal} ELSE {Str(1), BadVal}
ItemsOf(cls) ==
    {[cls |-> cls, f |-> g] :
        g \in {h \in [FieldNames(cls) -> ObjectIds \cup ItemVals(cls)] :
                  /\ h["identifier"] \in ObjectIds
                  /\ \A k \in DataFields(cls) : h[k] \in ItemVals(cls)}}
CallerItems == UNION {ItemsOf(c) : c \in ClassNames}

\* ---------------------------------------------------------------- collection
\* A collection is a set of documents; a document is a dict with key `_id`.
\* An equality filter matches a document that has every key of the filter
\* with an equal value.
\* mutant: one equal key is enough (disjunction instead of conjunction)
Matches_AnyKey(doc, filter) == \E k \in DOMAIN filter : k \in DOMAIN doc /\ doc[k] = filter[k]

Matches(doc, filter) == \A k \in DOMAIN filter : k \in DOMAIN doc /\ doc[k] = filter[k]
Matching(coll, filter) == {d \in coll : Matches(d, filter)}

\* mutant: the written document replaces the whole collection
update_one_Clobber(coll, filter, s, upsert) ==
    IF Matching(coll, filter) # {}
    THEN {{Merge(d, s)} : d \in Matching(coll, filter)}
    ELSE IF upsert THEN {{Merge(filter, s)}}
    ELSE {coll}

\* mutant: the upsert flag is not honoured
update_one_NoUpsert(coll, filter, s, upsert) ==
    IF Matching(coll, filter) # {}
    THEN {(coll \ {d}) \cup {Merge(d, s)} : d \in Matching(coll, filter)}
    ELSE {coll}

\* collection.update_one(filter, {"$set": s}, upsert): the possible resulting
\* collections.  One matching document gets the keys of s set; with no match
\* and upsert, the document made of the filter's equalities and s is inserted.
update_one(coll, filter, s, upsert) ==
    IF Matching(coll, filter) # {}
    THEN {(coll \ {d}) \cup {Merge(d, s)} : d \in Matching(coll, filter)}
    ELSE IF upsert THEN {coll \cup {Merge(filter, s)}}
    ELSE {coll}

\* mutant: the filter is not applied
find_one_docs_AnyDoc(coll, filter) == coll

\* collection.find_one(filter): the documents it may return (none: {})
find_one_docs(coll, filter) == Matching(coll, filter)

\* mutant: with no match some other document is removed, and not counted
delete_one_Sloppy(coll, filter) ==
    IF Matching(coll, filter) # {}
    THEN {[coll |-> coll \ {d}, deleted_count |-> 1] : d \in Matching(coll, filter)}
    ELSE IF coll = {} THEN {[coll |-> coll, deleted_count |-> 0]}
    ELSE {[coll |-> coll \ {d}, deleted_count |-> 0] : d \in coll}

\* collection.delete_one(filter): the possible outcomes (collection, deleted_count)
delete_one(coll, filter) ==
    IF Matching(coll, filter) # {}
    THEN {[coll |-> coll \ {d}, deleted_count |-> 1] : d \in Matching(coll, filter)}
    ELSE {[coll |-> coll, deleted_count |-> 0]}

\* ---------------------------------------------------------------- DatabaseItem
\* mutant: equality by all fields, as pydantic.BaseModel.__eq__ compares
DatabaseItemEq_ByFields(self, other) ==
    IF other.kind # "item" THEN "NotImplemented"
    ELSE IF self.f = other.x.f THEN "True" ELSE "False"

\* DatabaseItem.__eq__(self, other): other is any Python object
DatabaseItemEq(self, other) ==
    IF other.kind # "item" THEN "NotImplemented"
    ELSE IF self.f["identifier"] = other.x.f["identifier"] THEN "True" ELSE "False"

\* DatabaseItem.__hash__: the hash of the identifier (distinct identifiers are
\* taken to hash differently)
DatabaseItemHash(self) == self.f["identifier"]

\* ---------------------------------------------------------------- ForeignKey
\* ForeignKey.__init__
ForeignKey(target_type, identifier) == [target_type |-> target_type, identifier |-> identifier]
\* ForeignKey.__eq__ (both operands are ForeignKeys)
ForeignKeyEq(a, b) == a.target_type = b.target_type /\ a.identifier = b.identifier
\* ForeignKey.__hash__: the hash of the pair
ForeignKeyHash(a) == <<a.target_type, a.identifier>>

\* Python objects handed to a ForeignKey[T] field, tagged by what isinstance sees
AsItem(it) == [kind |-> "item", x |-> it]
AsValue(v) == [kind |-> v.tag, x |-> v]
AsRef(r) == [kind |-> "fk", x |-> r]

\* the union schema of _ForeignKey.__get_pydantic_core_schema__: an instance
\* of the target type, a str, or an instance of ForeignKey
UnionSchema(target_type, v) ==
    \/ v.kind = "item" /\ v.x.cls = target_type
    \/ v.kind = "str"
    \/ v.kind = "fk"

\* validator(v) of _ForeignKey.__get_pydantic_core_schema__
validator(target_type, v) ==
    IF v.kind = "fk" THEN [kind |-> "fk", exc |-> "", val |-> v.x]
    ELSE IF v.kind = "item" /\ v.x.cls = target_type
    THEN [kind |-> "fk", exc |-> "", val |-> ForeignKey(target_type, v.x.f["identifier"])]
    ELSE IF v.kind = "str"
    THEN [kind |-> "fk", exc |-> "", val |-> ForeignKey(target_type, v.x)]
    ELSE [kind |-> "raise", exc |-> "TypeError", val |-> ForeignKey("", None)]

\* validation of a ForeignKey[target_type] field: the union schema, then the
\* after-validator
ValidateForeignKey(target_type, v) ==
    IF UnionSchema(target_type, v) THEN validator(target_type, v)
    ELSE [kind |-> "raise", exc |-> "ValidationError", val |-> ForeignKey("", None)]

\* the inputs tried: valid items of each class, strings (field strings and hex
\* identifier strings), an int, and ForeignKeys built with __init__
ValidItems == {it \in CallerItems : ModelValidate(it.cls, it.f).ok}
BuiltRefs == {ForeignKey(c, i) : c \in ClassNames, i \in ObjectIds \cup HexStrs}
FKInputs == {AsItem(it) : it \in ValidItems}
            \cup {AsValue(v) : v \in StrVals \cup HexStrs \cup {BadVal}}
            \cup {AsRef(r) : r \in BuiltRefs}

\* ---------------------------------------------------------------- state
VARIABLES
    database,   \* MongoDBDatabase.database: collection name -> set of documents
    hist,       \* history: per class and id, the item of the last successful
                \* update if no successful delete followed it, else Absent
    tomb,       \* history: the class and id of the most recent successful
                \* delete, until an update writes that id again
    last,       \* the call in flight: the operation, its arguments and what it
                \* returned or raised; Idle between calls
    fkPrev,     \* the ForeignKey validation before the last one
    fkLast,     \* the last ForeignKey validation: target type, input, outcome
    cmp,        \* the last comparison of an item with another object
    tasks,      \* the concurrent callers: per task its call, the position of
                \* its coroutine and what it returned or raised
    base        \* history: the collections when the running tasks were started

vars == <<database, hist, tomb, last, fkPrev, fkLast, cmp, tasks, base>>
storeVars == <<database, hist, tomb, last>>
fkVars == <<fkPrev, fkLast, cmp>>
concVars == <<tasks, base>>

NoArg == [none |-> None]
Returned(kind, val) == [kind |-> kind, exc |-> "", val |-> val]
Raised(exc) == [kind |-> "raise", exc |-> exc, val |-> None]
\* pre: the history entry of the identifier the call names, before the call
Call(op, cls, arg, cascade, pre, res) ==
    [op |-> op, cls |-> cls, arg |-> arg, cascade |-> cascade, pre |-> pre, res |-> res]
NoPre == [state |-> "", f |-> NoArg]
Idle == Call("idle", "", NoArg, FALSE, NoPre, Returned("none", None))
NoValidation == [target |-> "", input |-> AsValue(None),
                 res |-> [kind |-> "none", exc |-> "", val |-> ForeignKey("", None)]]

NoComparison == [done |-> FALSE, self |-> [cls |-> "", f |-> NoArg], other |-> AsValue(None),
                 eq |-> "", hashSelf |-> None, hashOther |-> None]

\* The concurrent callers (the router's handlers are coroutines of one event
\* loop): each makes one update or delete of the same identifier.
Tasks == {"t1", "t2"}
ConcClass == "User"
ConcId == Oid(1)
ConcOps == {[op |-> "update", arg |-> it.f] :
               it \in {x \in ItemsOf(ConcClass) : x.f["identifier"] = ConcId}}
           \cup {[op |-> "delete", arg |-> ConcId]}
NoResponse == [deleted_count |-> 0]
IdleTask == [pc |-> "idle", op |-> "", arg |-> NoArg, res |-> Returned("none", None),
             resp |-> NoResponse, raced |-> FALSE]

TotalDocs(db) == Cardinality(UNION {{<<c, d>> : d \in db[c]} : c \in ClassNames})

Absent == [state |-> "absent", f |-> NoArg]
Written(f) == [state |-> "written", f |-> f]
NoTomb == [cls |-> "", id |-> None]

Init ==
    /\ database = [c \in ClassNames |-> {}]
    /\ hist = [c \in ClassNames |-> [i \in ObjectIds |-> Absent]]
    /\ tomb = NoTomb
    /\ last = Idle
    /\ fkPrev = NoValidation
    /\ fkLast = NoValidation
    /\ cmp = NoComparison
    /\ tasks = [t \in Tasks |-> IdleTask]
    /\ base = database

\* MongoDBDatabase.update(item)
update(item) ==
    LET item_type == item.cls
        valid == ModelValidate(item_type, item.f)
    IN IF ~valid.ok
       THEN /\ last' = Call("update", item_type, item.f, FALSE,
                            hist[item_type][item.f["identifier"]], Raised("ValidationError"))
            /\ UNCHANGED <<database, hist, tomb>>
       ELSE \E coll \in update_one(database[item_type],
                                   [_id |-> item.f["identifier"]],
                                   ModelDump(item, {"_id"}),
                                   TRUE) :
              /\ database' = [database EXCEPT ![item_type] = coll]
              /\ TotalDocs(database') <= MaxDocs
              /\ hist' = [hist EXCEPT ![item_type][item.f["identifier"]] = Written(item.f)]
              /\ tomb' = IF tomb = [cls |-> item_type, id |-> item.f["identifier"]]
                         THEN NoTomb ELSE tomb
              /\ last' = Call("update", item_type, item.f, FALSE,
                              hist[item_type][item.f["identifier"]], Returned("none", None))

Update ==
    /\ last = Idle
    /\ \E item \in CallerItems : update(item)
    /\ UNCHANGED <<fkVars, concVars>>

\* mutant: one collection for all types
get_AnyCollection(class_type, identifier) ==
    LET collection == UNION {database[c] : c \in ClassNames}
        found == find_one_docs(collection, [_id |-> identifier])
    IN /\ UNCHANGED <<database, hist, tomb>>
       /\ IF found # {}
          THEN \E res \in found :
                 LET m == ModelValidate(class_type, res)
                 IN last' = Call("get", class_type, identifier, FALSE,
                                 hist[class_type][identifier],
                                 IF m.ok THEN Returned("item", m.item.f)
                                 ELSE Raised("ValidationError"))
          ELSE last' = Call("get", class_type, identifier, FALSE,
                            hist[class_type][identifier],
                            Raised("UnknownEntityError"))

\* MongoDBDatabase.get(class_type, identifier)
get(class_type, identifier) ==
    LET collection == database[class_type]
        found == find_one_docs(collection, [_id |-> identifier])
    IN /\ UNCHANGED <<database, hist, tomb>>
       /\ IF found # {}
          THEN \E res \in found :
                 LET m == ModelValidate(class_type, res)
                 IN last' = Call("get", class_type, identifier, FALSE,
                                 hist[class_type][identifier],
                                 IF m.ok THEN Returned("item", m.item.f)
                                 ELSE Raised("ValidationError"))
          ELSE last' = Call("get", class_type, identifier, FALSE,
                            hist[class_type][identifier],
                            Raised("UnknownEntityError"))

Get ==
    /\ last = Idle
    /\ \E c \in ClassNames, i \in ObjectIds : get(c, i)
    /\ UNCHANGED <<fkVars, concVars>>

\* MongoDBDatabase.get_all(class_type)
get_all(class_type) ==
    /\ UNCHANGED <<database, hist, tomb>>
    /\ last' = Call("get_all", class_type, NoArg, FALSE, NoPre,
                  Raised("NotImplementedError"))

GetAll ==
    /\ last = Idle
    /\ \E c \in ClassNames : get_all(c)
    /\ UNCHANGED <<fkVars, concVars>>

\* mutant: the delete count is not inspected
NotDeleted_Never(result) == FALSE

\* `result.deleted_count != 1` of MongoDBDatabase.delete
NotDeleted(result) == result.deleted_count # 1

\* mutant: cascade=True also removes the documents of the other collections
\* stored under the same identifier
delete_Cascading(class_type, identifier, cascade) ==
    LET collection == database[class_type]
    IN \E result \in delete_one(collection, [_id |-> identifier]) :
         /\ database' = [c \in ClassNames |->
                           IF c = class_type THEN result.coll
                           ELSE IF cascade
                                THEN {d \in database[c] : d["_id"] # identifier}
                                ELSE database[c]]
         /\ IF NotDeleted(result)
            THEN /\ last' = Call("delete", class_type, identifier, cascade,
                                 hist[class_type][identifier],
                                 Raised("UnknownEntityError"))
                 /\ UNCHANGED <<hist, tomb>>
            ELSE /\ last' = Call("delete", class_type, identifier, cascade,
                                 hist[class_type][identifier],
                                 Returned("none", None))
                 /\ hist' = [hist EXCEPT ![class_type][identifier] = Absent]
                 /\ tomb' = [cls |-> class_type, id |-> identifier]

\* MongoDBDatabase.delete(class_type, identifier, cascade)
delete(class_type, identifier, cascade) ==
    LET collection == database[class_type]
    IN \E result \in delete_one(collection, [_id |-> identifier]) :
         /\ database' = [database EXCEPT ![class_type] = result.coll]
         /\ IF NotDeleted(result)
            THEN /\ last' = Call("delete", class_type, identifier, cascade,
                                 hist[class_type][identifier],
                                 Raised("UnknownEntityError"))
                 /\ UNCHANGED <<hist, tomb>>
            ELSE /\ last' = Call("delete", class_type, identifier, cascade,
                                 hist[class_type][identifier],
                                 Returned("none", None))
                 /\ hist' = [hist EXCEPT ![class_type][identifier] = Absent]
                 /\ tomb' = [cls |-> class_type, id |-> identifier]

Delete ==
    /\ last = Idle
    /\ \E c \in ClassNames, i \in ObjectIds, cascade \in BOOLEAN : delete(c, i, cascade)
    /\ UNCHANGED <<fkVars, concVars>>

\* the keyword filters callers pass to find and find_one (**kwargs: str)
Filters(cls) == UNION {[S -> StrVals] : S \in SUBSET DataFields(cls)}

\* mutant: the cursor is falsy
CursorIsTruthy_Never == FALSE

\* bool(collection.find(...)): a cursor object is truthy
CursorIsTruthy == TRUE

\* MongoDBDatabase.find(class_type, **kwargs)
find(class_type, kwargs) ==
    LET collection == database[class_type]
        results == Matching(collection, kwargs)
        keys == {res["_id"] : res \in results}
    IN /\ UNCHANGED <<database, hist, tomb>>
       /\ IF CursorIsTruthy
          THEN \E pick \in {p \in [keys -> results] : \A k \in keys : p[k]["_id"] = k} :
                 last' = Call("find", class_type, kwargs, FALSE, NoPre,
                              IF \A res \in results : ModelValidate(class_type, res).ok
                              THEN Returned("dict",
                                     [k \in keys |-> ModelValidate(class_type, pick[k]).item.f])
                              ELSE Raised("ValidationError"))
          ELSE last' = Call("find", class_type, kwargs, FALSE, NoPre, Returned("none", None))

Find ==
    /\ last = Idle
    /\ \E c \in ClassNames : \E kwargs \in Filters(c) : find(c, kwargs)
    /\ UNCHANGED <<fkVars, concVars>>

\* MongoDBDatabase.find_one(class_type, **kwargs)
find_one(class_type, kwargs) ==
    LET collection == database[class_type]
        found == find_one_docs(collection, kwargs)
    IN /\ UNCHANGED <<database, hist, tomb>>
       /\ IF found # {}
          THEN \E result \in found :
                 LET m == ModelValidate(class_type, result)
                 IN last' = Call("find_one", class_type, kwargs, FALSE, NoPre,
                                 IF m.ok THEN Returned("item", m.item.f)
                                 ELSE Raised("ValidationError"))
          ELSE last' = Call("find_one", class_type, kwargs, FALSE, NoPre, Returned("none", None))

FindOne ==
    /\ last = Idle
    /\ \E c \in ClassNames : \E kwargs \in Filters(c) : find_one(c, kwargs)
    /\ UNCHANGED <<fkVars, concVars>>

\* the exception classes database.py declares: DatabaseError and its subclass
DatabaseErrors == {"DatabaseError", "UnknownEntityError"}

\* the awaiting caller resumes with the outcome (`return await self.get(...)`
\* and the like) and is free to make the next call
Return ==
    /\ last # Idle
    /\ last' = Idle
    /\ UNCHANGED <<database, hist, tomb>>
    /\ UNCHANGED <<fkVars, concVars>>

Next == Update \/ Get \/ GetAll \/ Delete \/ Find \/ FindOne \/ Return

Spec == Init /\ [][Next]_vars

\* A task calls update(item) or delete(class_type, identifier): the coroutine
\* runs up to its `await`; an update validates the item first.
TaskCall(t) ==
    /\ tasks[t].pc = "idle"
    /\ \E o \in ConcOps :
         tasks' = [tasks EXCEPT ![t] =
            IF o.op = "update" /\ ~ModelValidate(ConcClass, o.arg).ok
            THEN [IdleTask EXCEPT !.pc = "done", !.op = o.op, !.arg = o.arg,
                                  !.res = Raised("ValidationError")]
            ELSE [IdleTask EXCEPT !.pc = "awaiting", !.op = o.op, !.arg = o.arg]]
    /\ UNCHANGED <<database, hist, tomb, last, base>>
    /\ UNCHANGED fkVars

\* The server executes the awaited update_one or delete_one of task t: one
\* request, applied to the collection in one step.
TaskRequest(t) ==
    /\ tasks[t].pc = "awaiting"
    /\ LET raced == \E u \in Tasks \ {t} : tasks[u].pc \in {"awaiting", "resumable"}
       IN IF tasks[t].op = "update"
          THEN \E coll \in update_one(database[ConcClass], [_id |-> ConcId],
                                      ModelDump([cls |-> ConcClass, f |-> tasks[t].arg], {"_id"}),
                                      TRUE) :
                 /\ database' = [database EXCEPT ![ConcClass] = coll]
                 /\ hist' = [hist EXCEPT ![ConcClass][ConcId] = Written(tasks[t].arg)]
                 /\ tomb' = IF tomb = [cls |-> ConcClass, id |-> ConcId] THEN NoTomb ELSE tomb
                 /\ tasks' = [tasks EXCEPT ![t].pc = "resumable", ![t].raced = raced]
          ELSE \E result \in delete_one(database[ConcClass], [_id |-> ConcId]) :
                 /\ database' = [database EXCEPT ![ConcClass] = result.coll]
                 /\ hist' = IF result.deleted_count = 1
                            THEN [hist EXCEPT ![ConcClass][ConcId] = Absent] ELSE hist
                 /\ tomb' = IF result.deleted_count = 1
                            THEN [cls |-> ConcClass, id |-> ConcId] ELSE tomb
                 /\ tasks' = [tasks EXCEPT ![t].pc = "resumable", ![t].raced = raced,
                                           ![t].resp = [deleted_count |-> result.deleted_count]]
    /\ UNCHANGED <<last, base>>
    /\ UNCHANGED fkVars

\* The coroutine of task t resumes with the response: update returns, delete
\* inspects deleted_count.
TaskResume(t) ==
    /\ tasks[t].pc = "resumable"
    /\ tasks' = [tasks EXCEPT ![t].pc = "done", ![t].resp = NoResponse,
                              ![t].res = IF tasks[t].op = "delete" /\ NotDeleted(tasks[t].resp)
                                         THEN Raised("UnknownEntityError")
                                         ELSE Returned("none", None)]
    /\ UNCHANGED <<database, hist, tomb, last, base>>
    /\ UNCHANGED fkVars

\* Every started task has finished; the next tasks start from what is stored.
TaskJoin ==
    /\ \A t \in Tasks : tasks[t].pc \in {"idle", "done"}
    /\ \E t \in Tasks : tasks[t].pc = "done"
    /\ tasks' = [t \in Tasks |-> IdleTask]
    /\ base' = database
    /\ UNCHANGED <<database, hist, tomb, last>>
    /\ UNCHANGED fkVars

NextConc ==
    \/ \E t \in Tasks : TaskCall(t)
    \/ \E t \in Tasks : TaskRequest(t)
    \/ \E t \in Tasks : TaskResume(t)
    \/ TaskJoin

SpecConc == Init /\ [][NextConc]_vars

\* The documents a collection of the named database may hold when the
\* backend object is constructed over it: written under an earlier declaration
\* of the class, a data field may be missing or hold a value that is not a str.
DriftDocs(cls) ==
    UNION {{d \in [{"_id"} \cup S -> ObjectIds \cup ItemVals(cls)] :
              /\ d["_id"] \in ObjectIds
              /\ \A k \in S : d[k] \in ItemVals(cls)} : S \in SUBSET DataFields(cls)}

\* MongoDBDatabase.__init__ over a database that already holds a document
InitShape ==
    /\ \E c \in ClassNames : \E d \in DriftDocs(c) :
         database = [x \in ClassNames |-> IF x = c THEN {d} ELSE {}]
    /\ hist = [c \in ClassNames |-> [i \in ObjectIds |-> Absent]]
    /\ tomb = NoTomb
    /\ last = Idle
    /\ fkPrev = NoValidation
    /\ fkLast = NoValidation
    /\ cmp = NoComparison
    /\ tasks = [t \in Tasks |-> IdleTask]
    /\ base = database

NextShape == Get \/ Find \/ FindOne \/ Return

SpecShape == InitShape /\ [][NextShape]_vars

\* Constructing an item with a ForeignKey[target_type] field from input v
Validate ==
    /\ \E target_type \in ClassNames, v \in FKInputs :
         /\ fkLast' = [target |-> target_type, input |-> v,
                       res |-> ValidateForeignKey(target_type, v)]
         /\ fkPrev' = fkLast
    /\ UNCHANGED storeVars
    /\ UNCHANGED cmp
    /\ UNCHANGED concVars

NextFK == Validate

SpecFK == Init /\ [][NextFK]_vars

\* the objects an item is compared with: items of either class, valid or
\* not, and identifier strings
CompareWith == {AsItem(it) : it \in CallerItems} \cup {AsValue(v) : v \in HexStrs}

\* `a == b` and `hash(a)`, `hash(b)` for an item a and an object b
Compare ==
    /\ ~cmp.done
    /\ \E self \in CallerItems, other \in CompareWith :
         cmp' = [done |-> TRUE, self |-> self, other |-> other,
                 eq |-> DatabaseItemEq(self, other),
                 hashSelf |-> DatabaseItemHash(self),
                 hashOther |-> IF other.kind = "item" THEN DatabaseItemHash(other.x)
                               ELSE other.x]
    /\ UNCHANGED storeVars
    /\ UNCHANGED <<fkPrev, fkLast>>
    /\ UNCHANGED concVars

\* the outcome of the comparison is dropped; the next one can be made
Discard ==
    /\ cmp.done
    /\ cmp' = NoComparison
    /\ UNCHANGED storeVars
    /\ UNCHANGED <<fkPrev, fkLast>>
    /\ UNCHANGED concVars

NextEq == Compare \/ Discard

SpecEq == Init /\ [][NextEq]_vars

\* ---------------------------------------------------------------- claims
\* the identifiers of the entities of class c, as last written, that carry
\* every key/value pair of kwargs
MatchIds(c, kwargs) ==
    {i \in ObjectIds : /\ hist[c][i].state = "written"
                       /\ \A k \in DOMAIN kwargs : hist[c][i].f[k] = kwargs[k]}
DocsWithId(c, i) == {d \in database[c] : d["_id"] = i}
UnknownRaised == last.res.kind = "raise" /\ last.res.exc = "UnknownEntityError"
LastSlot == [cls |-> last.cls, id |-> last.arg]

C2_UpsertOverwrite ==
    /\ \A c \in ClassNames, i \in ObjectIds :
          hist[c][i].state = "written" =>
            /\ Cardinality(DocsWithId(c, i)) = 1
            /\ \A d \in DocsWithId(c, i) : \A k \in DataFields(c) :
                  k \in DOMAIN d /\ d[k] = hist[c][i].f[k]
    /\ (last.op = "update" /\ ModelValidate(last.cls, last.arg).ok) =>
          /\ last.res.kind = "none"
          /\ hist[last.cls][last.arg["identifier"]] = Written(last.arg)
    /\ (last.op = "get" /\ hist[last.cls][last.arg].state = "written") =>
          /\ last.res.kind = "item"
          /\ \A k \in DataFields(last.cls) :
                last.res.val[k] = hist[last.cls][last.arg].f[k]

\* an update of a stored entity that changes one field and leaves another
C2_Witness ==
    /\ last.op = "update"
    /\ last.res.kind = "none"
    /\ last.pre.state = "written"
    /\ \E k \in DataFields(last.cls) : last.pre.f[k] # last.arg[k]
    /\ \E k \in DataFields(last.cls) : last.pre.f[k] = last.arg[k]
    /\ \E d \in database[last.cls] : d = ModelDump([cls |-> last.cls, f |-> last.arg], {})

\* C3: get raises UnknownEntityError exactly when the identifier has no entity
\* in the class's collection (never updated, or deleted since its last
\* update); otherwise it returns the entity of that identifier.
C3_GetUnknownIff ==
    last.op = "get" =>
        /\ UnknownRaised <=> hist[last.cls][last.arg].state = "absent"
        /\ UnknownRaised <=> DocsWithId(last.cls, last.arg) = {}
        /\ hist[last.cls][last.arg].state = "written" =>
              /\ last.res.kind = "item"
              /\ last.res.val["identifier"] = last.arg

\* a get of an identifier deleted since its last update
C3_Witness ==
    /\ last.op = "get"
    /\ UnknownRaised
    /\ tomb = LastSlot

\* C4: delete succeeds exactly when the entity existed just before the call and
\* otherwise raises UnknownEntityError; after a successful delete the entity
\* is gone, and until an update writes the identifier again a get and a
\* second delete of it raise UnknownEntityError.
C4_DeleteNotIdempotent ==
    /\ last.op = "delete" =>
          /\ last.res.kind = "none" <=> last.pre.state = "written"
          /\ last.res.kind = "raise" => UnknownRaised
          /\ last.res.kind = "none" =>
                /\ hist[last.cls][last.arg].state = "absent"
                /\ DocsWithId(last.cls, last.arg) = {}
    /\ (last.op \in {"get", "delete"} /\ tomb = LastSlot /\ last.pre.state = "absent") =>
          UnknownRaised

\* the second delete of an identifier after a successful one
C4_Witness ==
    /\ last.op = "delete"
    /\ tomb = LastSlot
    /\ last.pre.state = "absent"
    /\ UnknownRaised

\* C5: find returns a mapping whose keys are exactly the identifiers of the
\* entities of the collection that carry every key/value pair of the filter,
\* each mapped to that entity.
C5_FindExact ==
    last.op = "find" =>
        /\ last.res.kind = "dict"
        /\ DOMAIN last.res.val = MatchIds(last.cls, last.arg)
        /\ \A i \in DOMAIN last.res.val : last.res.val[i] = hist[last.cls][i].f

\* a two-key filter that one stored entity matches and another does not
C5_Witness ==
    /\ last.op = "find"
    /\ last.res.kind = "dict"
    /\ Cardinality(DOMAIN last.arg) = 2
    /\ Cardinality(DOMAIN last.res.val) = 1
    /\ \E i \in ObjectIds : /\ hist[last.cls][i].state = "written"
                             /\ i \notin DOMAIN last.res.val

\* C6: find_one returns None, and raises nothing, exactly when no entity of
\* the collection matches every filter; an entity it returns is in the
\* collection and matches every filter.
C6_FindOne ==
    last.op = "find_one" =>
        /\ last.res.kind \in {"none", "item"}
        /\ last.res.kind = "none" <=> MatchIds(last.cls, last.arg) = {}
        /\ last.res.kind = "item" =>
              /\ last.res.val["identifier"] \in MatchIds(last.cls, last.arg)
              /\ last.res.val = hist[last.cls][last.res.val["identifier"]].f

\* find_one returns the matching entity while another entity does not match
C6_Witness ==
    /\ last.op = "find_one"
    /\ last.res.kind = "item"
    /\ DOMAIN last.arg # {}
    /\ \E i \in ObjectIds : /\ hist[last.cls][i].state = "written"
                             /\ i \notin MatchIds(last.cls, last.arg)

\* C7: find_one raises when more than one entity of the collection matches the
\* filters, and returns an entity only when exactly one matches.
C7_FindOneRaisesOnMany ==
    last.op = "find_one" =>
        /\ Cardinality(MatchIds(last.cls, last.arg)) > 1 => last.res.kind = "raise"
        /\ last.res.kind = "item" => Cardinality(MatchIds(last.cls, last.arg)) = 1

\* C8: get_all either returns the whole collection as a mapping from
\* identifier to entity, or raises NotSupportedError, an error of the
\* DatabaseError taxonomy; it raises no other kind of error.
C8_GetAllContract ==
    last.op = "get_all" =>
        \/ /\ last.res.kind = "dict"
           /\ DOMAIN last.res.val = MatchIds(last.cls, <<>>)
        \/ /\ last.res.kind = "raise"
           /\ last.res.exc \in DatabaseErrors \cup {"NotSupportedError"}

\* the inputs that denote the entity of class T with identifier i: the
\* instance, the string form of its identifier, an already-built reference
IsPathTo(T, i, v) ==
    \/ v.kind = "item" /\ v.x.cls = T /\ v.x.f["identifier"] = i
    \/ v.kind = "str" /\ v.x = ObjectIdStr(i)
    \/ v.kind = "fk" /\ v.x.target_type = T /\ v.x.identifier \in {i, ObjectIdStr(i)}

\* C9: the references built for one target from the instance, from the string
\* form of its identifier and from an already-built reference are pairwise
\* equal and hash identically (all store the identifier in one form).
C9_ReferenceNormalization ==
    \A T \in ClassNames, i \in ObjectIds :
        (/\ fkPrev.target = T /\ fkLast.target = T
         /\ IsPathTo(T, i, fkPrev.input) /\ IsPathTo(T, i, fkLast.input)) =>
            /\ fkPrev.res.kind = "fk" /\ fkLast.res.kind = "fk"
            /\ ForeignKeyEq(fkPrev.res.val, fkLast.res.val)
            /\ ForeignKeyHash(fkPrev.res.val) = ForeignKeyHash(fkLast.res.val)

\* the inputs the reference type declares: an instance of T, a str, or a
\* reference whose target type is T
IsDeclaredInput(T, v) ==
    \/ v.kind = "item" /\ v.x.cls = T
    \/ v.kind = "str"
    \/ v.kind = "fk" /\ v.x.target_type = T

\* C10: building a reference with target type T raises unless the input is an
\* instance of T, a str, or a reference whose target type is T.
C10_RejectsMismatch ==
    (fkLast.target # "" /\ ~IsDeclaredInput(fkLast.target, fkLast.input))
        => fkLast.res.kind = "raise"

\* C11: two entity instances compare equal, and hash identically, exactly when
\* their identifiers are equal, whatever their field values.
C11_IdentityEquality ==
    (cmp.done /\ cmp.other.kind = "item") =>
        /\ cmp.eq = "True" <=> cmp.self.f["identifier"] = cmp.other.x.f["identifier"]
        /\ cmp.eq \in {"True", "False"}
        /\ cmp.hashSelf = cmp.hashOther
              <=> cmp.self.f["identifier"] = cmp.other.x.f["identifier"]

\* two instances with one identifier and different field values compare equal
C11_Witness ==
    /\ cmp.done /\ cmp.other.kind = "item"
    /\ cmp.self.cls = cmp.other.x.cls
    /\ cmp.self.f["identifier"] = cmp.other.x.f["identifier"]
    /\ cmp.self.f # cmp.other.x.f
    /\ cmp.eq = "True"
    /\ cmp.hashSelf = cmp.hashOther

\* the declared types of an item's fields: an ObjectId identifier, str data
DeclaredShape(cls, f) ==
    /\ f["identifier"].tag = "oid"
    /\ \A k \in DataFields(cls) : f[k].tag = "str"

\* C12: an update of an item whose fields do not have their declared types
\* raises a validation error and leaves every collection as it was.
C12_ValidationBeforeWrite ==
    [][(last'.op = "update" /\ ~DeclaredShape(last'.cls, last'.arg)) =>
          /\ last'.res.kind = "raise"
          /\ last'.res.exc = "ValidationError"
          /\ database' = database
          /\ hist' = hist]_vars

\* a failed update of a stored entity: the stored document is the old one
C12_Witness ==
    /\ last.op = "update"
    /\ ~DeclaredShape(last.cls, last.arg)
    /\ last.res.kind = "raise"
    /\ last.pre.state = "written"
    /\ DocsWithId(last.cls, last.arg["identifier"])
          = {ModelDump([cls |-> last.cls, f |-> last.pre.f], {})}

\* the documents of collection c of db stored under identifier i
StoredUnder(db, c, i) == {d \in db[c] : d["_id"] = i}

SeqStep(coll, t) ==
    IF tasks[t].op = "update"
    THEN IF DeclaredShape(ConcClass, tasks[t].arg)
         THEN [coll |-> {d \in coll : d["_id"] # ConcId}
                          \cup {ModelDump([cls |-> ConcClass, f |-> tasks[t].arg], {})},
               res |-> Returned("none", None)]
         ELSE [coll |-> coll, res |-> Raised("ValidationError")]
    ELSE IF \E d \in coll : d["_id"] = ConcId
         THEN [coll |-> {d \in coll : d["_id"] # ConcId}, res |-> Returned("none", None)]
         ELSE [coll |-> coll, res |-> Raised("UnknownEntityError")]

RECURSIVE SeqFinal(_, _)
SeqFinal(coll, order) ==
    IF order = <<>> THEN coll
    ELSE SeqFinal(SeqStep(coll, Head(order)).coll, Tail(order))

RECURSIVE SeqRes(_, _, _)
SeqRes(coll, order, t) ==
    IF Head(order) = t THEN SeqStep(coll, t).res
    ELSE SeqRes(SeqStep(coll, Head(order)).coll, Tail(order), t)

Started == {t \in Tasks : tasks[t].pc # "idle"}
AllDone == Started # {} /\ \A t \in Started : tasks[t].pc = "done"
Orders(S) == {o \in [1..Cardinality(S) -> S] : \A i, j \in DOMAIN o : i # j => o[i] # o[j]}

\* C14: when concurrently running updates and deletes of one identifier have
\* all finished, what is stored and what each call returned or raised are
\* those of the calls made one after another in some order; after updates
\* only, the stored document is wholly that of one of them; of two deletes of
\* a stored entity exactly one succeeds and the other raises UnknownEntityError.
C14_Linearizable ==
    AllDone =>
      /\ \E order \in Orders(Started) :
           /\ database[ConcClass] = SeqFinal(base[ConcClass], order)
           /\ \A t \in Started : tasks[t].res = SeqRes(base[ConcClass], order, t)
      /\ (\A t \in Started : tasks[t].op = "update" /\ tasks[t].res.kind = "none") =>
             \E t \in Started :
                StoredUnder(database, ConcClass, ConcId)
                  = {ModelDump([cls |-> ConcClass, f |-> tasks[t].arg], {})}
      /\ (/\ Started = Tasks
          /\ \A t \in Tasks : tasks[t].op = "delete"
          /\ StoredUnder(base, ConcClass, ConcId) # {}) =>
             \E t \in Tasks :
                /\ tasks[t].res = Returned("none", None)
                /\ \A u \in Tasks \ {t} : tasks[u].res = Raised("UnknownEntityError")

\* two deletes of a stored entity were in flight together and have finished
C14_Witness ==
    /\ AllDone /\ Started = Tasks
    /\ \A t \in Tasks : tasks[t].op = "delete"
    /\ \E t \in Tasks : tasks[t].raced
    /\ StoredUnder(base, ConcClass, ConcId) # {}
    /\ \E t \in Tasks : tasks[t].res = Returned("none", None)

ReadOps == {"get", "find", "find_one"}

\* C15: an entity that get, find or find_one returns has every declared field
\* with a value of the declared type, and a read that meets a stored document
\* not matching the declared shape raises DeserializationError, an error of
\* the DatabaseError taxonomy.
C15_NoPartialEntity ==
    last.op \in ReadOps =>
        /\ last.res.kind = "item" => DeclaredShape(last.cls, last.res.val)
        /\ last.res.kind = "dict" =>
              \A k \in DOMAIN last.res.val : DeclaredShape(last.cls, last.res.val[k])
        /\ (last.res.kind = "raise" /\ last.res.exc # "UnknownEntityError") =>
              last.res.exc = "DeserializationError"

\* C16: when no stored entity of the collection matches the filters, find
\* returns the empty mapping; it neither raises nor returns None.
C16_FindEmptyMapping ==
    (last.op = "find" /\ MatchIds(last.cls, last.arg) = {}) =>
        /\ last.res.kind = "dict"
        /\ DOMAIN last.res.val = {}

\* a find whose filters exclude every document of a collection that has some
C16_Witness ==
    /\ last.op = "find"
    /\ database[last.cls] # {}
    /\ MatchIds(last.cls, last.arg) = {}
    /\ last.res.kind = "dict"

\* the identifier a call names: an update's item carries it, a get or a
\* delete is given it
CalledId(call) == IF call.op = "update" THEN call.arg["identifier"] ELSE call.arg

\* C17: a successful update or delete changes nothing but the entry under the
\* call's identifier in the collection of the call's type: every other
\* document of that collection and every other collection stay as they were.
C17_WriteFrame ==
    [][(last'.op \in {"update", "delete"} /\ last'.res.kind = "none") =>
          LET c == last'.cls
              i == CalledId(last')
          IN /\ \A o \in ClassNames \ {c} : database'[o] = database[o]
             /\ {d \in database'[c] : d["_id"] # i} = {d \in database[c] : d["_id"] # i}]_vars

\* a successful overwrite or removal next to another document of the same
\* collection
C17_Witness ==
    /\ last.op \in {"update", "delete"} /\ last.res.kind = "none"
    /\ last.pre.state = "written"
    /\ \E d \in database[last.cls] : d["_id"] # CalledId(last)

\* C18: every stored document deserializes to an entity whose identifier is
\* the `_id` it is stored under, and no two documents share an `_id`; a get
\* returns an entity with the identifier asked for, and every key of the
\* mapping find returns is the identifier of the entity it maps to.
C18_KeyIsIdentifier ==
    /\ \A c \in ClassNames : \A d \in database[c] :
          /\ ModelValidate(c, d).ok
          /\ ModelValidate(c, d).item.f["identifier"] = d["_id"]
          /\ \A e \in database[c] : e["_id"] = d["_id"] => e = d
    /\ (last.op = "get" /\ last.res.kind = "item") =>
          last.res.val["identifier"] = last.arg
    /\ (last.op = "find" /\ last.res.kind = "dict") =>
          \A k \in DOMAIN last.res.val : last.res.val[k]["identifier"] = k

\* a find returned a mapping with an entity that an update (whose `$set`
\* names `_id`) wrote
C18_Witness ==
    /\ last.op = "find" /\ last.res.kind = "dict"
    /\ \E k \in DOMAIN last.res.val :
          /\ last.res.val[k]["identifier"] = k
          /\ hist[last.cls][k] = Written(last.res.val[k])

\* C19: a delete that fails, and every get, find and find_one, failed or
\* not, leaves every collection as it was.
C19_ReadFrame ==
    [][(\/ last'.op \in ReadOps
        \/ last'.op = "delete" /\ last'.res.kind = "raise") =>
          /\ database' = database
          /\ hist' = hist]_vars

\* a delete of an identifier not stored failed while the collection holds
\* another entity
C19_Witness ==
    /\ last.op = "delete" /\ UnknownRaised
    /\ database[last.cls] # {}
    /\ \A d \in database[last.cls] : d["_id"] # last.arg

\* the identifier is stored as an entity of a type other than c
StoredAsOther(c, i) == \E o \in ClassNames \ {c} : hist[o][i].state = "written"

\* C20: collections are kept apart by type name.  A get or a delete of type U
\* for an identifier stored only as another type raises UnknownEntityError
\* and the other type's entity stays stored; every entity that get, find or
\* find_one on U returns was written as U.
C20_CollectionIsolation ==
    /\ (last.op \in {"get", "delete"} /\ last.pre.state = "absent") =>
          /\ UnknownRaised
          /\ \A o \in ClassNames \ {last.cls} :
                hist[o][last.arg].state = "written" => DocsWithId(o, last.arg) # {}
    /\ (last.op \in {"get", "find_one"} /\ last.res.kind = "item") =>
          hist[last.cls][last.res.val["identifier"]] = Written(last.res.val)
    /\ (last.op = "find" /\ last.res.kind = "dict") =>
          \A k \in DOMAIN last.res.val : hist[last.cls][k] = Written(last.res.val[k])

\* a get of type U failed for an identifier that is stored as another type
C20_Witness ==
    /\ last.op = "get" /\ UnknownRaised
    /\ StoredAsOther(last.cls, last.arg)
    /\ last.pre.state = "absent"
====
